---- MODULE Spec2Model ----
(***************************************************************************)
(* Two standalone debugger test targets of pattyshack/bad:                 *)
(*                                                                         *)
(*   src/debugger/test_targets/multi_threaded2.cpp                         *)
(*       main creates a vector of thread handles, starts say_hi on each    *)
(*       and then joins them in order; say_hi prints and sleeps forever.   *)
(*   src/test/targets/print_longdouble.cpp                                 *)
(*       main dumps the 16 bytes of a long double twice.                   *)
(*                                                                         *)
(* The two executables share nothing.  Each has its own variables and its  *)
(* own specification (SpecThreads / SpecLongDouble, and the fair versions  *)
(* FairThreads / FairLongDouble).                                          *)
(***************************************************************************)
EXTENDS Integers, Sequences, FiniteSets

VARIABLES
    \* ---- multi_threaded2.cpp ----
    main_pc,    \* where main is: "create", "join", "joining", "return",
                \* "exited" (main returned, the process is gone) or
                \* "crashed" (the process was killed by the platform)
    ci,         \* position of the first range-for (next handle to create)
    ji,         \* position of the second range-for (next handle to join)
    handle,     \* handle[t]: "unset" (value-initialised), "ok" (names a
                \* running thread) or "failed" (pthread_create failed)
    tpc,        \* tpc[t]: where thread t is in say_hi, "none" if no thread
    line,       \* stdout: the insertions of the current, unterminated line
    reported,   \* threads whose id stands in a completed line of stdout
    calls,      \* the pthread calls main has issued, in order
    joined,     \* handles whose pthread_join has returned
    \* ---- print_longdouble.cpp ----
    ld_pc,      \* "loop1", "nl1", "assign", "loop2", "nl2", "done"
    ld_i,       \* the long double i: its value bytes, lowest address first
    loop_i,     \* the int i of the running for loop (shadows the long double)
    unsafe,     \* the uint8_t* taken at line 7: the object it points into
    writes,     \* how many times the long double has been written
    reads,      \* every unsafe[i] read so far, with what the object held
    ld_out      \* stdout of the long double program, character by character

vars_mt == <<main_pc, ci, ji, handle, tpc, line, reported, calls, joined>>
vars_ld == <<ld_pc, ld_i, loop_i, unsafe, writes, reads, ld_out>>
vars == <<main_pc, ci, ji, handle, tpc, line, reported, calls, joined,
          ld_pc, ld_i, loop_i, unsafe, writes, reads, ld_out>>

(***************************************************************************)
(* Text.                                                                   *)
(***************************************************************************)
Digits == <<"0", "1", "2", "3", "4", "5", "6", "7", "8", "9",
            "a", "b", "c", "d", "e", "f">>

RECURSIVE ToBase(_, _)
\* operator<<(int) and printf's %x: the digits of n > 0 in the given base,
\* most significant first, no leading zero.
ToBase(n, base) ==
    IF n < base THEN <<Digits[n + 1]>>
    ELSE ToBase(n \div base, base) \o <<Digits[(n % base) + 1]>>

\* The segments of s between occurrences of sep (one more than the number
\* of occurrences; the last is what follows the last sep).
Split(s, sep) ==
    LET at  == {k \in 1 .. Len(s) : s[k] = sep}
        n   == Cardinality(at)
        \* the position of the j-th sep; 0 and Len(s) + 1 bracket them
        pos == [j \in 0 .. n + 1 |->
                  IF j = 0 THEN 0
                  ELSE IF j = n + 1 THEN Len(s) + 1
                  ELSE CHOOSE k \in at : Cardinality({m \in at : m < k}) = j - 1]
    IN  [j \in 1 .. n + 1 |-> SubSeq(s, pos[j - 1] + 1, pos[j] - 1)]

\* The complete lines of an output (each without its newline).
LinesOf(s) == LET p == Split(s, "\n") IN SubSeq(p, 1, Len(p) - 1)
\* What follows the last newline.
Unterminated(s) == LET p == Split(s, "\n") IN p[Len(p)]
\* The whitespace-separated tokens of a line.
Tokens(l) == SelectSeq(Split(l, " "), LAMBDA x : x # <<>>)

RECURSIVE Flatten(_)
Flatten(ss) == IF ss = <<>> THEN <<>> ELSE Head(ss) \o Flatten(Tail(ss))

(***************************************************************************)
(* multi_threaded2.cpp                                                     *)
(***************************************************************************)
\* The size of the handle vector: 10 in the source (line 14), scaled down.
NumThreads == 3
Threads == 1 .. NumThreads

\* gettid(): distinct positive ids chosen by the kernel.
Tid(t) == 40 + t

\* The three stream insertions of line 8.
Prefix == <<"T", "h", "r", "e", "a", "d", " ">>
Suffix == <<" ", "r", "e", "p", "o", "r", "t", "i", "n", "g", " ", "i", "n", "\n">>
FragText(f) ==
    CASE f.what = "prefix" -> Prefix
      [] f.what = "id"     -> ToBase(Tid(f.who), 10)
      [] f.what = "suffix" -> Suffix
\* The characters a sequence of insertions puts on stdout.
Render(frags) == Flatten([k \in 1 .. Len(frags) |-> FragText(frags[k])])

LoopPcs == {"prefix", "id", "suffix", "sleep"}

\* Faulty variant: the loop ends after one round and say_hi returns.
LoopTarget_exit == "returned"
\* while (true): after sleep(1) the loop starts over.
LoopTarget == "prefix"

\* Faulty variant: the id is never inserted.
SayHiNext_noid(pc) ==
    CASE pc = "prefix" -> "suffix"
      [] pc = "id"     -> "suffix"
      [] pc = "suffix" -> "sleep"
      [] pc = "sleep"  -> LoopTarget
\* One statement of say_hi onward: the three insertions of line 8, the
\* sleep of line 9, and round again.
SayHiNext(pc) ==
    CASE pc = "prefix" -> "id"
      [] pc = "id"     -> "suffix"
      [] pc = "suffix" -> "sleep"
      [] pc = "sleep"  -> LoopTarget

\* The process exists: main has not returned and nothing killed it.
Alive == main_pc \notin {"exited", "crashed"}

\* Faulty variant: a thread waits until the threads started before it
\* have a line out.
Runnable_inorder(t) ==
    /\ Alive
    /\ tpc[t] \in LoopPcs
    /\ \A u \in Threads : (u < t /\ tpc[u] # "none") => u \in reported
\* A thread runs whenever it is inside say_hi and the process exists: the
\* loop takes no lock and waits for nothing.
Runnable(t) ==
    /\ Alive
    /\ tpc[t] \in LoopPcs

InitThreads ==
    /\ main_pc = "create"
    /\ ci = 1
    /\ ji = 1
    /\ handle = [t \in Threads |-> "unset"]
    /\ tpc = [t \in Threads |-> "none"]
    /\ line = <<>>
    /\ reported = {}
    /\ calls = <<>>
    /\ joined = {}

\* Faulty variant: the join sits inside the create loop.
AfterCreate_joinfirst(i) == "join"
\* What main does after the create of handle i: the first range-for goes on
\* to the next handle, and past the last one the second range-for begins.
AfterCreate(i) == IF i < NumThreads THEN "create" ELSE "join"

\* Faulty variant: main returns when pthread_create fails.
OnCreateResult_checked(started, i) == IF started THEN AfterCreate(i) ELSE "return"
\* What main does with the result of pthread_create on handle i: nothing,
\* it goes on whether or not a thread was started.
OnCreateResult(started, i) == AfterCreate(i)

\* Line 17.
Create ==
    /\ main_pc = "create"
    /\ \E started \in BOOLEAN :
          /\ handle' = [handle EXCEPT ![ci] = IF started THEN "ok" ELSE "failed"]
          /\ tpc' = [tpc EXCEPT ![ci] = IF started THEN "prefix" ELSE "none"]
          /\ main_pc' = OnCreateResult(started, ci)
    /\ calls' = Append(calls, <<"create", ci>>)
    /\ ci' = ci + 1
    /\ UNCHANGED <<ji, line, reported, joined>>
    /\ UNCHANGED vars_ld

\* Line 21, the call.
JoinCall ==
    /\ main_pc = "join"
    /\ calls' = Append(calls, <<"join", ji>>)
    /\ main_pc' = "joining"
    /\ UNCHANGED <<ci, ji, handle, tpc, line, reported, joined>>
    /\ UNCHANGED vars_ld

\* What main does after the join of handle j returned.
AfterJoin(j) == IF j < NumThreads THEN "join" ELSE "return"

\* pthread_join on a handle that names a thread returns once that thread
\* has terminated, that is, once say_hi has returned.
JoinMayReturn(j) == handle[j] = "ok" => tpc[j] = "returned"

\* Line 21, the return.  On a handle whose pthread_create failed the
\* behaviour is undefined: the call returns at once (its result is dropped)
\* or the process is killed.
JoinReturn ==
    /\ main_pc = "joining"
    /\ \/ /\ JoinMayReturn(ji)
          /\ joined' = joined \cup {ji}
          /\ ji' = ji + 1
          /\ main_pc' = AfterJoin(ji)
       \/ /\ handle[ji] # "ok"
          /\ main_pc' = "crashed"
          /\ UNCHANGED <<ji, joined>>
    /\ UNCHANGED <<ci, handle, tpc, line, reported, calls>>
    /\ UNCHANGED vars_ld

\* Line 23: main returns and the process exits, with every thread in it.
MainReturn ==
    /\ main_pc = "return"
    /\ main_pc' = "exited"
    /\ UNCHANGED <<ci, ji, handle, tpc, line, reported, calls, joined>>
    /\ UNCHANGED vars_ld

\* The threads whose id is among the given insertions.
IdsIn(frags) == {frags[k].who : k \in {n \in 1 .. Len(frags) : frags[n].what = "id"}}

\* One statement of thread t in say_hi: one of the three insertions of
\* line 8 (each reaches stdout whole, nothing orders them across threads),
\* or the sleep of line 9.
SayHi(t) ==
    /\ Runnable(t)
    /\ tpc' = [tpc EXCEPT ![t] = SayHiNext(tpc[t])]
    /\ CASE tpc[t] = "suffix" ->
              LET whole == Append(line, [who |-> t, what |-> "suffix"])
              IN  /\ line' = <<>>
                  /\ reported' = reported \cup IdsIn(whole)
         [] tpc[t] = "sleep" ->
              UNCHANGED <<line, reported>>
         [] OTHER ->
              /\ line' = Append(line, [who |-> t, what |-> tpc[t]])
              /\ UNCHANGED reported
    /\ UNCHANGED <<main_pc, ci, ji, handle, calls, joined>>
    /\ UNCHANGED vars_ld

MainStep == Create \/ JoinCall \/ JoinReturn \/ MainReturn

NextThreads ==
    \/ Create
    \/ JoinCall
    \/ JoinReturn
    \/ MainReturn
    \/ \E t \in Threads : SayHi(t)

(***************************************************************************)
(* Properties of multi_threaded2.cpp.                                      *)
(***************************************************************************)
AllStarted == \A t \in Threads : handle[t] = "ok"
JoinCalled(t) == \E k \in 1 .. Len(calls) : calls[k] = <<"join", t>>
\* main is past line 22 or the process is gone.
MainStopped == main_pc \in {"return", "exited", "crashed"}
\* Thread t writes a newline in this step; WholeLine(t) is the line it ends.
EndsLine(t) == tpc[t] = "suffix" /\ tpc'[t] # "suffix"
WholeLine(t) == Append(line, [who |-> t, what |-> "suffix"])
\* The text of a line without its newline.
Chop(text) == SubSeq(text, 1, Len(text) - 1)

C2_LinesAreOneThreads ==
    [][\A t \in Threads : EndsLine(t) =>
          \E u \in Threads :
             /\ \A k \in 1 .. Len(WholeLine(t)) : WholeLine(t)[k].who = u
             /\ Render(WholeLine(t)) = Prefix \o ToBase(Tid(u), 10) \o Suffix]_vars

\* C4 as claimed: under weak fairness, pthread_join on every handle main
\* started a thread on eventually completes.
C4_EveryHandleJoined ==
    \A t \in Threads : [](handle[t] = "ok" => <>(t \in joined))

\* C4 as amended: say_hi never returns, so pthread_join never completes on
\* a handle main started a thread on; the joins that return are joins of
\* handles whose pthread_create failed, and they return in vector order.
C4_StartedNeverJoined ==
    /\ \A t \in Threads : tpc[t] \in LoopPcs \cup {"none"}
    /\ \A t \in joined : handle[t] = "failed"
    /\ joined = 1 .. (ji - 1)

C4_BlockedBehindFailed ==
    /\ main_pc = "joining"
    /\ joined # {}
    /\ handle[ji] = "ok"
    /\ ji \in reported

\* C6: no worker leaves its loop, main never gets past the join of the
\* first handle and never returns, and the process never ends.
C6_NeverTerminates ==
    /\ \A t \in Threads : tpc[t] \in LoopPcs \cup {"none"}
    /\ ji = 1
    /\ ~MainStopped

\* C7: nothing orders the threads' output: while the process exists, every
\* started thread can take its next step whatever main and the other
\* threads have done, so either of two threads may print first.
C7_NothingOrdersThreads ==
    \A t \in Threads : (Alive /\ handle[t] = "ok") => ENABLED SayHi(t)

\* The second thread has a line out before the first thread, created
\* earlier, and before the third, which main has not yet created.
C7_LaterPrintsFirst ==
    /\ main_pc = "create"
    /\ handle[1] = "ok"
    /\ reported = {2}

\* The calls main issues if every join returns.
ExpectedCalls ==
    [k \in 1 .. 2 * NumThreads |->
        IF k <= NumThreads THEN <<"create", k>> ELSE <<"join", k - NumThreads>>]

\* C8: main issues one pthread_create per handle in vector order, then
\* pthread_join in the same order, no join before the last create; a
\* thread exists only on a handle that was created.
C8_CreatesThenJoins ==
    /\ Len(calls) <= 2 * NumThreads
    /\ calls = SubSeq(ExpectedCalls, 1, Len(calls))
    /\ main_pc # "create" => Len(calls) >= NumThreads
    /\ \A t \in Threads : tpc[t] # "none" => calls[t] = <<"create", t>>
    /\ Cardinality({t \in Threads : tpc[t] # "none"}) <= NumThreads

C8_AllCallsIssued == Len(calls) = 2 * NumThreads

\* C9 as claimed: under weak fairness, once a pthread_create has failed,
\* main still issues every create and then calls pthread_join on every
\* handle.
C9_JoinsEveryHandle ==
    [](( \E f \in Threads : handle[f] = "failed")
          => <>(\A t \in Threads : JoinCalled(t)))

\* C9 as amended: a failed pthread_create changes nothing in main's course:
\* main does not stop before it has issued every create and called
\* pthread_join on the first handle, whether or not that handle's create
\* failed; it calls pthread_join on a later handle only once the join of
\* every earlier handle has returned; and main writes nothing, so every
\* insertion on stdout is a started thread's.
C9_FailureIsIgnored ==
    /\ MainStopped => (Len(calls) > NumThreads /\ JoinCalled(1))
    /\ main_pc \in {"create", "join"} => ENABLED MainStep
    /\ \A t \in Threads : JoinCalled(t) => \A u \in 1 .. (t - 1) : u \in joined
    /\ \A t \in Threads : handle[t] = "failed" => tpc[t] = "none"
    /\ \A k \in 1 .. Len(line) : handle[line[k].who] = "ok"

C9_FailedHandleJoined ==
    /\ handle[1] = "failed"
    /\ handle[2] = "ok"
    /\ JoinCalled(1)
    /\ 1 \in joined
    /\ main_pc = "joining"
    /\ ji = 2

(***************************************************************************)
(* print_longdouble.cpp                                                    *)
(***************************************************************************)
RECURSIVE Log2(_, _)
\* The e with 2^e <= num/den < 2^(e+1), for num/den >= 1.
Log2(num, den) == IF num < 2 * den THEN 0 ELSE 1 + Log2(num, 2 * den)

RECURSIVE Pow2(_)
Pow2(n) == IF n = 0 THEN 1 ELSE 2 * Pow2(n - 1)

RECURSIVE FracBytes(_, _, _)
\* The first n base-256 digits of r/d, for 0 <= r < d, followed by what
\* is left of r: <<digits, remainder>>.
FracBytes(r, d, n) ==
    IF n = 0 THEN <<<<>>, r>>
    ELSE LET digit == (256 * r) \div d
             rest  == FracBytes(256 * r - digit * d, d, n - 1)
         IN  <<<<digit>> \o rest[1], rest[2]>>

RECURSIVE Increment(_)
\* A string of bytes (most significant first) plus one; it must not be
\* all 255.
Increment(bytes) ==
    LET n == Len(bytes)
    IN  IF bytes[n] < 255 THEN SubSeq(bytes, 1, n - 1) \o <<bytes[n] + 1>>
        ELSE Increment(SubSeq(bytes, 1, n - 1)) \o <<0>>

Reverse(q) == [k \in 1 .. Len(q) |-> q[Len(q) + 1 - k]]

\* The value bytes, lowest address first, of the x87 extended-precision
\* long double nearest to num/den >= 1: a 64-bit significand with its
\* leading one stored, rounded to nearest (ties to even), then the sign
\* bit and the 15-bit exponent, biased by 16383.
X87(num, den) ==
    LET e     == Log2(num, den)
        d     == den * Pow2(e)
        \* num/d is in [1, 2): the top byte holds the leading one and the
        \* first seven binary digits of the fraction
        top   == (128 * num) \div d
        fb    == FracBytes(128 * num - top * d, d, 7)
        sig   == <<top>> \o fb[1]
        up    == 2 * fb[2] > d \/ (2 * fb[2] = d /\ sig[8] % 2 = 1)
        round == IF up THEN Increment(sig) ELSE sig
        expo  == e + 16383
    IN  Reverse(round) \o <<expo % 256, expo \div 256>>

\* 42.24l (line 6) and 64.125l (line 14).
Value1 == X87(1056, 25)
Value2 == X87(513, 8)

\* Faulty variant: the first loop stops at the ten value bytes.
Loop1Bound_short == 16 - 6
\* The bound of the first and of the second for loop.
Loop1Bound == 16
Loop2Bound == 16

\* The bytes of the 16-byte object past its value bytes are padding, which
\* no store to the long double sets: a read of one may yield any byte
\* (two stand for all).
Padding == {0, 255}

\* unsafe[k]: what a read of byte k of the object p points into may yield.
ByteAt(p, k) ==
    IF p = "i" /\ k < Len(ld_i) THEN {ld_i[k + 1]} ELSE Padding

\* printf("%#x ", b): lower-case hexadecimal without leading zeros, "0x"
\* before it unless b is zero, then a space.
Fmt(b) ==
    (IF b = 0 THEN <<"0">> ELSE <<"0", "x">> \o ToBase(b, 16)) \o <<" ">>

\* Faulty variant: the loop counts in the long double's own storage.
AfterPrint_unshadowed(v, k) == [v EXCEPT ![1] = k]
\* The long double after an iteration that ran with the loop's int i at k:
\* the loop's i is a fresh object, so nothing is stored to the long double.
AfterPrint(v, k) == v

InitLongDouble ==
    /\ ld_pc = "loop1"
    /\ ld_i = Value1
    /\ loop_i = 0
    /\ unsafe = "i"
    /\ writes = 1
    /\ reads = <<>>
    /\ ld_out = <<>>

\* One iteration of a for loop (lines 8-10, lines 15-17): the test, the
\* printf of unsafe[i], the increment.
Loop(here, n, bound, next) ==
    /\ ld_pc = here
    /\ loop_i < bound
    /\ \E b \in ByteAt(unsafe, loop_i) :
          /\ ld_out' = ld_out \o Fmt(b)
          /\ reads' = Append(reads, [line |-> n, idx |-> loop_i, ptr |-> unsafe,
                                     held |-> ld_i, byte |-> b])
    /\ ld_i' = AfterPrint(ld_i, loop_i)
    /\ loop_i' = loop_i + 1
    /\ ld_pc' = IF loop_i + 1 < bound THEN here ELSE next
    /\ UNCHANGED <<unsafe, writes>>
    /\ UNCHANGED vars_mt

Loop1 == Loop("loop1", 1, Loop1Bound, "nl1")

\* Line 12.
Newline1 ==
    /\ ld_pc = "nl1"
    /\ ld_out' = Append(ld_out, "\n")
    /\ ld_pc' = "assign"
    /\ UNCHANGED <<ld_i, loop_i, unsafe, writes, reads>>
    /\ UNCHANGED vars_mt

\* Line 14, and the initialisation of the second loop's int i.
Assign ==
    /\ ld_pc = "assign"
    /\ ld_i' = Value2
    /\ writes' = writes + 1
    /\ loop_i' = 0
    /\ ld_pc' = "loop2"
    /\ UNCHANGED <<unsafe, reads, ld_out>>
    /\ UNCHANGED vars_mt

Loop2 == Loop("loop2", 2, Loop2Bound, "nl2")

\* Line 19, and the return from main.
Newline2 ==
    /\ ld_pc = "nl2"
    /\ ld_out' = Append(ld_out, "\n")
    /\ ld_pc' = "done"
    /\ UNCHANGED <<ld_i, loop_i, unsafe, writes, reads>>
    /\ UNCHANGED vars_mt

NextLongDouble == Loop1 \/ Newline1 \/ Assign \/ Loop2 \/ Newline2

(***************************************************************************)
(* Properties of print_longdouble.cpp, and of both programs.               *)
(***************************************************************************)
HexDigits == {Digits[k] : k \in 1 .. 16}

\* A byte as %#x prints it: "0", or "0x" and one or two hexadecimal digits,
\* the first of them not zero.
IsHexByte(tok) ==
    \/ tok = <<"0">>
    \/ /\ Len(tok) \in {3, 4}
       /\ tok[1] = "0"
       /\ tok[2] = "x"
       /\ tok[3] # "0"
       /\ \A k \in 3 .. Len(tok) : tok[k] \in HexDigits

\* A line of exactly 16 byte tokens, each followed by one space.
IsByteLine(l) ==
    LET p == Split(l, " ")
    IN  /\ Len(p) = 17
        /\ p[17] = <<>>
        /\ \A k \in 1 .. 16 : IsHexByte(p[k])

\* The reads of one of the two loops, in order.
ReadsOf(n) == SelectSeq(reads, LAMBDA r : r.line = n)

\* C3: every run ends, and the complete output is exactly two lines, each
\* of 16 hexadecimal byte tokens, one per byte index 0..15 in order, each
\* followed by a space, and a newline; at no time are there more lines.
C3_TwoLinesOfSixteen ==
    /\ <>(ld_pc = "done")
    /\ [](Len(LinesOf(ld_out)) <= 2)
    /\ [](ld_pc = "done" =>
            /\ Len(LinesOf(ld_out)) = 2
            /\ Unterminated(ld_out) = <<>>
            /\ \A n \in 1 .. 2 :
                  /\ IsByteLine(LinesOf(ld_out)[n])
                  /\ Len(ReadsOf(n)) = 16
                  /\ \A k \in 1 .. 16 : ReadsOf(n)[k].idx = k - 1)

C3_Finished == ld_pc = "done" /\ Len(LinesOf(ld_out)) = 2

\* C5: the output has the same shape on every run: the long-double
\* program's is two lines of 16 tokens, and every line of the
\* multi-threaded program has the four tokens of "Thread <id> reporting in".
C5_SameShapeEveryRun ==
    /\ [](ld_pc = "done" =>
            /\ Len(LinesOf(ld_out)) = 2
            /\ \A n \in 1 .. 2 : Len(Tokens(LinesOf(ld_out)[n])) = 16)
    /\ [][\A t \in Threads : EndsLine(t) =>
             Len(Tokens(Chop(Render(WholeLine(t))))) = 4]_vars

\* C10: the long double is written twice, 42.24 at its definition and
\* 64.125 once the first line is complete, and no loop iteration changes
\* it: every byte of the first line is read through the one pointer to the
\* object while it holds 42.24, every byte of the second line through the
\* same pointer while it holds 64.125, and the value bytes printed are
\* those of the value held.
C10_ValueOnlyAssigned ==
    /\ unsafe = "i"
    /\ writes = (IF ld_pc \in {"loop1", "nl1", "assign"} THEN 1 ELSE 2)
    /\ ld_i = (IF writes = 1 THEN Value1 ELSE Value2)
    /\ writes = 2 => (Len(ReadsOf(1)) = 16 /\ Len(LinesOf(ld_out)) >= 1)
    /\ ld_pc = "done" => Len(ReadsOf(2)) = 16
    /\ \A k \in 1 .. Len(reads) :
          LET r == reads[k]
              v == IF r.line = 1 THEN Value1 ELSE Value2
          IN  /\ r.ptr = "i"
              /\ r.held = v
              /\ r.idx < Len(v) => r.byte = v[r.idx + 1]
              /\ r.line = (IF k <= 16 THEN 1 ELSE 2)
              /\ r.idx = (k - 1) % 16

C10_BothLinesRead ==
    /\ ld_pc = "done"
    /\ writes = 2
    /\ Len(reads) = 32
    /\ Value1 = <<195, 245, 40, 92, 143, 194, 245, 168, 4, 64>>
    /\ Value2 = <<0, 0, 0, 0, 0, 0, 64, 128, 5, 64>>

(***************************************************************************)
(* Specifications.                                                         *)
(***************************************************************************)
Init == InitThreads /\ InitLongDouble

SpecThreads == Init /\ [][NextThreads]_vars

\* The scheduler runs every runnable thread again and again, and sleep(1)
\* ends: main and each worker are weakly fair.
FairThreads ==
    /\ SpecThreads
    /\ WF_vars(MainStep)
    /\ \A t \in Threads : WF_vars(SayHi(t))

SpecLongDouble == Init /\ [][NextLongDouble]_vars

\* A single thread that is never blocked: it keeps running to the end.
FairLongDouble == SpecLongDouble /\ WF_vars(NextLongDouble)

====
